---- MODULE Spec2Model ----
(***************************************************************************)
(* Model of package vm of roachprod (vm/vm.go): the provider registry, the *)
(* dispatch engine (FanOut, ForProvider, ProvidersParallel,                *)
(* ProvidersSequential) and the memoized FindActiveAccount.                *)
(*                                                                         *)
(* The closures handed to errgroup.Group.Go in FanOut and ProvidersParallel*)
(* refer to the loop variables `name` and `vms`.  The package is built     *)
(* with per-loop (not per-iteration) loop variables, so a task reads the   *)
(* value the variable holds at the moment the task runs: the loop variable *)
(* is modelled as shared state, written by the loop and read by the tasks. *)
(***************************************************************************)
EXTENDS Integers, Sequences, FiniteSets, TLC

\* ---------------------------------------------------------------- bounds
MaxLen == 2        \* longest List handed to FanOut
MaxPar == 2        \* longest `named` slice handed to ProvidersParallel
MaxNamed == 3      \* longest `named` slice handed to ProvidersSequential
NumCallers == 2    \* goroutines that call FindActiveAccount
MaxCalls == 3      \* calls of FindActiveAccount they make in all
MaxZone == 4       \* longest Zone string handed to Locality
MaxVMs == 3        \* longest List handed to Names and Zones

\* ------------------------------------------------------------- universes
Names == {"a", "b", "c"}                 \* provider names that can occur
Registries == {{"a", "b", "c"}, {"a", "b"}, {"a"}, {}}
AccountRegistries == {{"a", "b"}, {"a"}, {}}   \* with concurrent callers

\* ---------------------------------------------------------------- errors
Nil == [msg |-> "nil"]
ActionErrs == {[msg |-> "E1"], [msg |-> "E2"]}   \* opaque backend errors
Hang == [msg |-> "hang"]                 \* the action never returns
Pending == [msg |-> "pending"]           \* the action has not returned yet

\* errors.Errorf("unknown provider name: %s", name)
ErrUnknownProviderName(n) == [msg |-> "unknown provider name", name |-> n]

\* errors.Errorf("unknown vm provider: %s", named)
ErrUnknownVMProvider(n) == [msg |-> "unknown vm provider", name |-> n]

\* a wrapping that drops the cause
Wrapf_NoCause(err, n) == [msg |-> "in provider", name |-> n, cause |-> Nil]

\* errors.Wrapf(err, "in provider: %s", named)
Wrapf(err, n) == [msg |-> "in provider", name |-> n, cause |-> err]

\* errors.New("no Providers returned any active accounts")
ErrNoAccounts == [msg |-> "no Providers returned any active accounts"]

\* errors.Errorf("multiple active Provider accounts detected: %s", providerAccounts)
ErrMultipleAccounts(pa) ==
    [msg |-> "multiple active Provider accounts detected", accounts |-> pa]

Accounts == {"acct1", "acct2"}           \* account names a backend can answer
ProviderErr == [msg |-> "EP"]            \* a backend's FindActiveAccount fails

\* What p.FindActiveAccount() can return: an account or "" with a nil error,
\* or an error.
Outcomes == {[acct |-> a, err |-> Nil] : a \in Accounts \cup {""}}
               \cup {[acct |-> "", err |-> ProviderErr]}
AnyAnswer == [acct |-> "<any>", err |-> Nil]   \* a backend whose answer can change

\* ------------------------------------------------------------------ state
VARIABLES
    op,           \* the dispatch function being called
    Providers,    \* the registry: provider name -> Provider
    list,         \* FanOut's argument
    named,        \* the `named` argument (a sequence of names)
    pc,           \* position of the calling goroutine
    m,            \* FanOut's map[string]List
    iter,         \* the order in which the launching loop visits its range
    i,            \* number of loop iterations done
    name,         \* the loop variable `name`
    vms,          \* the loop variable `vms`
    tasks,        \* the goroutines started by g.Go, in launch order
    g,            \* the errgroup.Group: [err, once]
    ret,          \* the value returned to the caller
    calls,        \* history: the invocations of `action` made by the calling
                  \* goroutine itself, in time order: [p, r] (provider, result)
    firstFailed,  \* history: the first task whose function finished non-nil
    firstOnce,    \* history: the first task to reach errOnce.Do
    cachedActiveAccount,  \* var cachedActiveAccount string
    faa,          \* the FindActiveAccount call of each calling goroutine
    succeeded,    \* history: the accounts returned with a nil error so far
    written,      \* history: the values assigned to cachedActiveAccount, in order
    oracle,       \* what each backend's FindActiveAccount answers (Any: anything)
    Local,        \* config.Local, the Zone of the local host
    recv,         \* the receiver of Locality
    out           \* the value returned by Locality, Names or Zones

dvars == <<list, named, pc, m, iter, i, name, vms, tasks, g, ret, calls,
           firstFailed, firstOnce>>
avars == <<cachedActiveAccount, faa, succeeded, written, oracle>>
vvars == <<Local, recv, out>>
vars == <<op, Providers, dvars, avars, vvars>>

Callers == 1..NumCallers

\* ---------------------------------------------------------------- helpers
RECURSIVE SeqsUpTo(_, _)
SeqsUpTo(S, n) ==
    IF n = 0 THEN {<<>>}
    ELSE LET shorter == SeqsUpTo(S, n - 1)
         IN shorter \cup {Append(s, x) : s \in {q \in shorter : Len(q) = n - 1}, x \in S}

Range(s) == {s[k] : k \in DOMAIN s}

Perms(S) == {s \in SeqsUpTo(S, Cardinality(S)) : Len(s) = Cardinality(S) /\ Range(s) = S}

\* A List whose k-th VM is named k and is owned by provider ps[k].
MkList(ps) == [k \in DOMAIN ps |-> [Name |-> k, Provider |-> ps[k]]]

\* The VM of a call that has no receiver.
NoVM == [Name |-> "", Provider |-> "", Zone |-> <<>>]

\* A Provider; Name() is the canonical registry key.
MkProvider(n) == [Name |-> n]
NoProvider == [Name |-> "<none>"]

\* var Providers = map[string]Provider{}, as filled by the backends' init()
MkRegistry(reg) == [n \in reg |-> MkProvider(n)]

EmptyMap == [n \in {} |-> <<>>]

\* ------------------------------------------------------ FanOut: collation
\* for _, vm := range list { m[vm.Provider] = append(m[vm.Provider], vm) }
RECURSIVE Collate(_, _)
Collate(mm, l) ==
    IF l = <<>> THEN mm
    ELSE LET vm == Head(l)
             k == vm.Provider
             prev == IF k \in DOMAIN mm THEN mm[k] ELSE <<>>
         IN Collate([x \in (DOMAIN mm) \cup {k} |->
                        IF x = k THEN Append(prev, vm) ELSE mm[x]], Tail(l))

\* ------------------------------------------------------------ ForProvider
\* p, ok := Providers[named]
Lookup(n) ==
    IF n \in DOMAIN Providers THEN [ok |-> TRUE, p |-> Providers[n]]
    ELSE [ok |-> FALSE, p |-> NoProvider]

\* ForProvider losing the action's error
ForProviderResult_Swallow(n, err) == Nil

\* if err := action(p); err != nil { return Wrapf(...) }; return nil
ForProviderResult(n, err) == IF err # Nil THEN Wrapf(err, n) ELSE Nil

\* --------------------------------------------------------------- errgroup
\* a group that keeps the last error instead of the first
ErrOnceDo_Overwrite(grp, err) == [err |-> err, once |-> TRUE]

\* g.errOnce.Do(func() { g.err = err })
ErrOnceDo(grp, err) ==
    IF grp.once THEN grp ELSE [err |-> err, once |-> TRUE]

\* a Wait that returns as soon as one goroutine has finished with an error
WaitReady_FirstError(ts, launched, total) ==
    /\ launched = total
    /\ \/ \A t \in DOMAIN ts : ts[t].pc = "done"
       \/ \E t \in DOMAIN ts : ts[t].pc = "done" /\ ts[t].err # Nil

\* g.Wait(): g.wg.Wait() over the goroutines launched, then return g.err
WaitReady(ts, launched, total) ==
    /\ launched = total
    /\ \A t \in DOMAIN ts : ts[t].pc = "done"

\* A goroutine started by g.Go: its position, what it read from the loop
\* variables (name, ok, p, vms), whether it has called action (inv), what
\* action returned (r) and the value its function returned (err).
NewTask == [pc |-> "start", name |-> "", ok |-> FALSE, p |-> NoProvider,
            vms |-> <<>>, inv |-> FALSE, r |-> Nil, err |-> Nil]

Failed(t, err) == IF firstFailed = 0 /\ err # Nil THEN t ELSE firstFailed

\* A call of FindActiveAccount: position, AllProviderNames() (names), the
\* iterations of ProvidersSequential done (k), providerAccounts, the returned
\* pair (acct, err); history: provider calls made (nq), the calls started
\* (ncalls), the accounts already returned when this call started (snap),
\* whether the call found the cache filled (hit) and what the providers
\* answered to this call, in time order (answered: [name, acct, err]).
IdleCall == [pc |-> "idle", names |-> <<>>, k |-> 0, providerAccounts |-> EmptyMap,
             acct |-> "", err |-> Nil, nq |-> 0, ncalls |-> 0, snap |-> {},
             hit |-> FALSE, answered |-> <<>>]

\* ------------------------------------------------------------------- Init
Init ==
    /\ op \in {"FanOut", "ForProvider", "ProvidersParallel", "ProvidersSequential"}
    /\ \E reg \in Registries : Providers = MkRegistry(reg)
    /\ IF op = "FanOut"
       THEN /\ \E ps \in SeqsUpTo(Names, MaxLen) : list = MkList(ps)
            /\ named = <<>>
            /\ pc = "collate"
       ELSE /\ list = <<>>
            /\ CASE op = "ForProvider" -> \E n \in Names : named = <<n>>
                 [] op = "ProvidersParallel" -> named \in SeqsUpTo(Names, MaxPar)
                 [] OTHER -> named \in SeqsUpTo(Names, MaxNamed)
            /\ pc = "loop"
    /\ m = EmptyMap
    /\ iter = IF op = "FanOut" THEN <<>> ELSE named
    /\ i = 0
    /\ name = ""
    /\ vms = <<>>
    /\ tasks = <<>>
    /\ g = [err |-> Nil, once |-> FALSE]
    /\ ret = Nil
    /\ calls = <<>>
    /\ firstFailed = 0
    /\ firstOnce = 0
    /\ cachedActiveAccount = ""
    /\ faa = [c \in Callers |-> IdleCall]
    /\ succeeded = {}
    /\ written = <<>>
    /\ oracle = [n \in DOMAIN Providers |-> AnyAnswer]
    /\ Local = NoVM.Zone
    /\ recv = NoVM
    /\ out = <<>>

\* ----------------------------------------------------------------- FanOut
\* lines 133-136, and the order `range m` will produce
FanOutCollate ==
    /\ op = "FanOut" /\ pc = "collate"
    /\ m' = Collate(EmptyMap, list)
    /\ iter' \in Perms(DOMAIN m')
    /\ pc' = "loop"
    /\ UNCHANGED <<avars, vvars, op, Providers, list, named, i, name, vms, tasks, g, ret,
                   calls, firstFailed, firstOnce>>

\* for name, vms := range m { g.Go(func() error {...}) }
FanOutGo ==
    /\ op = "FanOut" /\ pc = "loop" /\ i < Len(iter)
    /\ i' = i + 1
    /\ name' = iter[i + 1]
    /\ vms' = m[iter[i + 1]]
    /\ tasks' = Append(tasks, NewTask)
    /\ UNCHANGED <<avars, vvars, op, Providers, list, named, pc, m, iter, g, ret, calls,
                   firstFailed, firstOnce>>

\* p, ok := Providers[name]
FanOutLookup(t) ==
    /\ op = "FanOut" /\ tasks[t].pc = "start"
    /\ tasks' = [tasks EXCEPT ![t] = [@ EXCEPT !.pc = "looked", !.name = name,
                                       !.ok = Lookup(name).ok, !.p = Lookup(name).p]]
    /\ UNCHANGED <<avars, vvars, op, Providers, list, named, pc, m, iter, i, name, vms, g,
                   ret, calls, firstFailed, firstOnce>>

\* if !ok { return errors.Errorf("unknown provider name: %s", name) }
FanOutUnknown(t) ==
    /\ op = "FanOut" /\ tasks[t].pc = "looked" /\ ~tasks[t].ok
    /\ tasks' = [tasks EXCEPT ![t] = [@ EXCEPT !.pc = "ret",
                                       !.err = ErrUnknownProviderName(name)]]
    /\ firstFailed' = Failed(t, ErrUnknownProviderName(name))
    /\ UNCHANGED <<avars, vvars, op, Providers, list, named, pc, m, iter, i, name, vms, g,
                   ret, calls, firstOnce>>

\* return action(p, vms): the call
FanOutInvoke(t) ==
    /\ op = "FanOut" /\ tasks[t].pc = "looked" /\ tasks[t].ok
    /\ tasks' = [tasks EXCEPT ![t] = [@ EXCEPT !.pc = "running", !.inv = TRUE,
                                       !.vms = vms]]
    /\ UNCHANGED <<avars, vvars, op, Providers, list, named, pc, m, iter, i, name, vms, g,
                   ret, calls, firstFailed, firstOnce>>

\* return action(p, vms): the action returns (or never does)
FanOutReturn(t) ==
    /\ op = "FanOut" /\ tasks[t].pc = "running"
    /\ \E r \in {Nil, Hang} \cup ActionErrs :
          IF r = Hang
          THEN /\ tasks' = [tasks EXCEPT ![t] = [@ EXCEPT !.pc = "hung"]]
               /\ UNCHANGED firstFailed
          ELSE /\ tasks' = [tasks EXCEPT ![t] = [@ EXCEPT !.pc = "ret", !.r = r,
                                                  !.err = r]]
               /\ firstFailed' = Failed(t, r)
    /\ UNCHANGED <<avars, vvars, op, Providers, list, named, pc, m, iter, i, name, vms, g,
                   ret, calls, firstOnce>>

\* ------------------------------------------------------ ProvidersParallel
\* for _, name := range named { g.Go(func() error {...}) }
ParallelGo ==
    /\ op = "ProvidersParallel" /\ pc = "loop" /\ i < Len(iter)
    /\ i' = i + 1
    /\ name' = iter[i + 1]
    /\ tasks' = Append(tasks, NewTask)
    /\ UNCHANGED <<avars, vvars, op, Providers, list, named, pc, m, iter, vms, g, ret, calls,
                   firstFailed, firstOnce>>

\* return ForProvider(name, action): lookup, then the call of action(p)
ParallelForProvider(t) ==
    /\ op = "ProvidersParallel" /\ tasks[t].pc = "start"
    /\ IF Lookup(name).ok
       THEN /\ tasks' = [tasks EXCEPT ![t] = [@ EXCEPT !.pc = "running", !.name = name,
                                 !.ok = TRUE, !.p = Lookup(name).p, !.inv = TRUE]]
            /\ UNCHANGED firstFailed
       ELSE /\ tasks' = [tasks EXCEPT ![t] = [@ EXCEPT !.pc = "ret", !.name = name,
                                               !.err = ErrUnknownVMProvider(name)]]
            /\ firstFailed' = Failed(t, ErrUnknownVMProvider(name))
    /\ UNCHANGED <<avars, vvars, op, Providers, list, named, pc, m, iter, i, name, vms, g,
                   ret, calls, firstOnce>>

\* ForProvider lines 201-204 inside the task: action returns (or never does)
ParallelReturn(t) ==
    /\ op = "ProvidersParallel" /\ tasks[t].pc = "running"
    /\ \E r \in {Nil, Hang} \cup ActionErrs :
          IF r = Hang
          THEN /\ tasks' = [tasks EXCEPT ![t] = [@ EXCEPT !.pc = "hung"]]
               /\ UNCHANGED firstFailed
          ELSE /\ tasks' = [tasks EXCEPT ![t] = [@ EXCEPT !.pc = "ret", !.r = r,
                                !.err = ForProviderResult(tasks[t].name, r)]]
               /\ firstFailed' = Failed(t, r)
    /\ UNCHANGED <<avars, vvars, op, Providers, list, named, pc, m, iter, i, name, vms, g,
                   ret, calls, firstOnce>>

\* ------------------------------------------------- errgroup: Go and Wait
\* if err := f(); err != nil { g.errOnce.Do(...) }; g.wg.Done()
GroupDone(t) ==
    /\ op \in {"FanOut", "ProvidersParallel"} /\ tasks[t].pc = "ret"
    /\ IF tasks[t].err # Nil
       THEN /\ g' = ErrOnceDo(g, tasks[t].err)
            /\ firstOnce' = IF firstOnce = 0 THEN t ELSE firstOnce
       ELSE UNCHANGED <<g, firstOnce>>
    /\ tasks' = [tasks EXCEPT ![t] = [@ EXCEPT !.pc = "done"]]
    /\ UNCHANGED <<avars, vvars, op, Providers, list, named, pc, m, iter, i, name, vms, ret,
                   calls, firstFailed>>

\* return g.Wait()
GroupWait ==
    /\ op \in {"FanOut", "ProvidersParallel"} /\ pc = "loop"
    /\ WaitReady(tasks, i, Len(iter))
    /\ ret' = g.err
    /\ pc' = "done"
    /\ UNCHANGED <<avars, vvars, op, Providers, list, named, m, iter, i, name, vms, tasks, g,
                   calls, firstFailed, firstOnce>>

\* ------------------------------------------------------------ ForProvider
\* ForProvider(named, action): lookup, then the call of action(p)
ForProviderCall ==
    /\ op = "ForProvider" /\ pc = "loop"
    /\ IF Lookup(named[1]).ok
       THEN /\ calls' = Append(calls, [p |-> Lookup(named[1]).p, r |-> Pending])
            /\ pc' = "running"
            /\ UNCHANGED ret
       ELSE /\ ret' = ErrUnknownVMProvider(named[1])
            /\ pc' = "done"
            /\ UNCHANGED calls
    /\ UNCHANGED <<avars, vvars, op, Providers, list, named, m, iter, i, name, vms, tasks, g,
                   firstFailed, firstOnce>>

\* action returns (or never does); lines 201-204
ForProviderReturn ==
    /\ op = "ForProvider" /\ pc = "running"
    /\ \E r \in {Nil, Hang} \cup ActionErrs :
          IF r = Hang
          THEN pc' = "hung" /\ UNCHANGED <<ret, calls>>
          ELSE /\ pc' = "done"
               /\ ret' = ForProviderResult(named[1], r)
               /\ calls' = [calls EXCEPT ![Len(calls)].r = r]
    /\ UNCHANGED <<avars, vvars, op, Providers, list, named, m, iter, i, name, vms, tasks, g,
                   firstFailed, firstOnce>>

\* ---------------------------------------------------- ProvidersSequential
\* for _, name := range named { ForProvider(name, action) ... }: the next
\* iteration, up to the call of action(p)
SequentialCall ==
    /\ op = "ProvidersSequential" /\ pc = "loop" /\ i < Len(named)
    /\ name' = named[i + 1]
    /\ IF Lookup(named[i + 1]).ok
       THEN /\ calls' = Append(calls, [p |-> Lookup(named[i + 1]).p, r |-> Pending])
            /\ pc' = "running"
            /\ UNCHANGED ret
       ELSE /\ ret' = ErrUnknownVMProvider(named[i + 1])
            /\ pc' = "done"
            /\ UNCHANGED calls
    /\ UNCHANGED <<avars, vvars, op, Providers, list, named, m, iter, i, vms, tasks, g,
                   firstFailed, firstOnce>>

\* a loop that ignores the error
SequentialGoesOn_Always(err) == TRUE

\* Whether the loop of ProvidersSequential goes on after ForProvider
\* returned err: if err != nil { return err }
SequentialGoesOn(err) == err = Nil

\* action returns (or never does); ForProvider returns; the loop returns the
\* error or goes on
SequentialReturn ==
    /\ op = "ProvidersSequential" /\ pc = "running"
    /\ \E r \in {Nil, Hang} \cup ActionErrs :
          IF r = Hang
          THEN pc' = "hung" /\ UNCHANGED <<ret, i, calls>>
          ELSE /\ calls' = [calls EXCEPT ![Len(calls)].r = r]
               /\ IF SequentialGoesOn(ForProviderResult(name, r))
                  THEN pc' = "loop" /\ i' = i + 1 /\ UNCHANGED ret
                  ELSE pc' = "done" /\ ret' = ForProviderResult(name, r) /\ UNCHANGED i
    /\ UNCHANGED <<avars, vvars, op, Providers, list, named, m, iter, name, vms, tasks, g,
                   firstFailed, firstOnce>>

\* return nil
SequentialEnd ==
    /\ op = "ProvidersSequential" /\ pc = "loop" /\ i = Len(named)
    /\ pc' = "done"
    /\ ret' = Nil
    /\ UNCHANGED <<avars, vvars, op, Providers, list, named, m, iter, i, name, vms, tasks, g,
                   calls, firstFailed, firstOnce>>

Next ==
    \/ ForProviderCall
    \/ ForProviderReturn
    \/ SequentialCall
    \/ SequentialReturn
    \/ SequentialEnd
    \/ FanOutCollate
    \/ FanOutGo
    \/ \E t \in DOMAIN tasks : FanOutLookup(t)
    \/ \E t \in DOMAIN tasks : FanOutUnknown(t)
    \/ \E t \in DOMAIN tasks : FanOutInvoke(t)
    \/ \E t \in DOMAIN tasks : FanOutReturn(t)
    \/ ParallelGo
    \/ \E t \in DOMAIN tasks : ParallelForProvider(t)
    \/ \E t \in DOMAIN tasks : ParallelReturn(t)
    \/ \E t \in DOMAIN tasks : GroupDone(t)
    \/ GroupWait

Spec == Init /\ [][Next]_vars

\* ================================================================ claims
ParallelOps == {"FanOut", "ProvidersParallel"}
ListProviders == {list[k].Provider : k \in DOMAIN list}
InvokedWith(n) == {t \in DOMAIN tasks : tasks[t].inv /\ tasks[t].p.Name = n}
SubList(n) == SelectSeq(list, LAMBDA vm : vm.Provider = n)
Entries(n) == {k \in DOMAIN named : named[k] = n}
IsUnknown(e) == e.msg \in {"unknown provider name", "unknown vm provider"}
GivenNames == IF op = "FanOut" THEN ListProviders ELSE Range(named)
AllInvocationsNil ==
    /\ \A t \in DOMAIN tasks : tasks[t].inv => tasks[t].r = Nil
    /\ \A k \in DOMAIN calls : calls[k].r = Nil
FailedTasks == {t \in DOMAIN tasks : tasks[t].err # Nil}

\* C1: with every provider of the list registered, FanOut has invoked the
\* action exactly once per distinct provider name of the list and for no
\* other, each time with the provider registered under the name and the
\* VMs of that provider in input order; an empty list starts nothing and
\* returns nil.
C1_FanOutPartition ==
    (op = "FanOut" /\ pc = "done" /\ ListProviders \subseteq DOMAIN Providers) =>
       /\ \A n \in Names :
             Cardinality(InvokedWith(n)) = IF n \in ListProviders THEN 1 ELSE 0
       /\ \A t \in DOMAIN tasks :
             tasks[t].inv => /\ tasks[t].p = Providers[tasks[t].p.Name]
                             /\ tasks[t].vms = SubList(tasks[t].p.Name)
       /\ list = <<>> => (tasks = <<>> /\ ret = Nil)

\* C2: a list mixing an unregistered provider name with registered ones
\* whose actions all succeed makes FanOut return "unknown provider name",
\* with one invocation per registered group and none for the unregistered.
C2_UnknownProvider ==
    ( /\ op = "FanOut" /\ pc = "done"
      /\ ListProviders \ DOMAIN Providers # {}
      /\ ListProviders \cap DOMAIN Providers # {}
      /\ \A t \in DOMAIN tasks : tasks[t].inv => tasks[t].r = Nil ) =>
       /\ ret.msg = "unknown provider name"
       /\ \A n \in ListProviders \cap DOMAIN Providers : Cardinality(InvokedWith(n)) = 1
       /\ \A n \in ListProviders \ DOMAIN Providers : InvokedWith(n) = {}

\* C3: FanOut and ProvidersParallel return only when every task they
\* launched has finished: never while a task is running or hung, and a
\* failed task does not keep a sibling from calling its action.
C3_WaitsForAll ==
    (op \in ParallelOps /\ pc = "done") =>
       /\ Len(tasks) = Len(iter)
       /\ \A t \in DOMAIN tasks :
             /\ tasks[t].pc = "done"
             /\ tasks[t].ok => tasks[t].inv

C3_Witness ==
    /\ op \in ParallelOps /\ pc = "done" /\ g.once
    /\ \E t \in DOMAIN tasks : t > firstOnce /\ tasks[t].inv /\ tasks[t].err = Nil

\* C4 as stated: the error returned is that of the task whose function
\* was the first to finish with a non-nil error.
C4_FirstFailedWins ==
    (op \in ParallelOps /\ pc = "done" /\ firstFailed # 0) =>
       ret = tasks[firstFailed].err

\* C4 as amended: the error returned is the error of exactly one task, the
\* first failed task to reach the group's errOnce, and nil if none failed.
C4_FirstRecordedWins ==
    (op \in ParallelOps /\ pc = "done") =>
       IF FailedTasks = {} THEN ret = Nil /\ firstOnce = 0
       ELSE firstOnce \in FailedTasks /\ ret = tasks[firstOnce].err

C4_Witness ==
    /\ op \in ParallelOps /\ pc = "done"
    /\ firstFailed # 0 /\ firstOnce # firstFailed
    /\ tasks[firstOnce].err # tasks[firstFailed].err
    /\ ret = tasks[firstOnce].err

\* The position of `named` at which ProvidersSequential stopped with an
\* error: the one after the last invocation when the lookup failed, the
\* last invocation's otherwise.
StopPos == IF IsUnknown(ret) THEN Len(calls) + 1 ELSE Len(calls)

\* C5: ProvidersSequential invokes the action for the entries of named in
\* order, one at a time; it stops at the first position that fails with
\* that position's error, every earlier position having been invoked once
\* and none after; with no failure every position is invoked once and nil
\* is returned.
C5_SequentialFailFast ==
    op = "ProvidersSequential" =>
       /\ Len(calls) <= Len(named)
       /\ \A k \in DOMAIN calls :
             /\ named[k] \in DOMAIN Providers /\ calls[k].p = Providers[named[k]]
             /\ k < Len(calls) => calls[k].r = Nil
       /\ (pc = "done" /\ ret = Nil) =>
             (Len(calls) = Len(named) /\ \A k \in DOMAIN calls : calls[k].r = Nil)
       /\ (pc = "done" /\ ret # Nil) =>
             /\ StopPos \in DOMAIN named
             /\ IF named[StopPos] \in DOMAIN Providers
                THEN /\ Len(calls) = StopPos
                     /\ calls[StopPos].r \in ActionErrs
                     /\ ret = Wrapf(calls[StopPos].r, named[StopPos])
                ELSE /\ Len(calls) = StopPos - 1
                     /\ ret = ErrUnknownVMProvider(named[StopPos])

C5_Witness ==
    /\ op = "ProvidersSequential" /\ pc = "done"
    /\ Len(named) = 3 /\ Len(calls) = 2
    /\ ret = Wrapf(calls[2].r, named[2])

\* C6: ProvidersParallel invokes the action exactly once per registered
\* entry of named, with the provider registered under the entry's name,
\* whatever the other tasks do; when exactly one entry fails the error
\* returned is that entry's, wrapped with its provider name.
C6_ParallelOncePerEntry ==
    (op = "ProvidersParallel" /\ pc = "done") =>
       /\ \A n \in Names :
             Cardinality(InvokedWith(n)) =
                IF n \in DOMAIN Providers THEN Cardinality(Entries(n)) ELSE 0
       /\ \A t \in DOMAIN tasks :
             tasks[t].inv => tasks[t].p = Providers[named[t]]
       /\ \A t \in DOMAIN tasks :
             (FailedTasks = {t} /\ tasks[t].inv) => ret = Wrapf(tasks[t].r, named[t])

\* C7: ForProvider invokes the action once, with the provider registered
\* under named, when named is registered and never otherwise (then it
\* returns "unknown vm provider"); it returns nil exactly when the action
\* ran and returned nil, and an action error e comes back naming named
\* with e as its cause.
C7_ForProvider ==
    op = "ForProvider" =>
       /\ Len(calls) <= 1
       /\ \A k \in DOMAIN calls :
             named[1] \in DOMAIN Providers /\ calls[k].p = Providers[named[1]]
       /\ pc = "done" =>
             /\ named[1] \in DOMAIN Providers => Len(calls) = 1
             /\ named[1] \notin DOMAIN Providers =>
                   (calls = <<>> /\ ret = ErrUnknownVMProvider(named[1]))
             /\ ret = Nil <=> (Len(calls) = 1 /\ calls[1].r = Nil)
             /\ (Len(calls) = 1 /\ calls[1].r # Nil) =>
                   ret = [msg |-> "in provider", name |-> named[1], cause |-> calls[1].r]

C7_Witness ==
    /\ op = "ForProvider" /\ pc = "done"
    /\ Len(calls) = 1 /\ calls[1].r \in ActionErrs
    /\ ret.msg = "in provider"

\* C8: a dispatch function returns nil if and only if every provider name
\* it was given is registered and every invocation of the action it made
\* returned nil.
C8_NoSwallow ==
    (op \in ParallelOps \cup {"ForProvider", "ProvidersSequential"} /\ pc = "done") =>
       (ret = Nil <=> (GivenNames \subseteq DOMAIN Providers /\ AllInvocationsNil))

\* C9 as stated: every error returned because an action failed names the
\* provider whose action failed and has the action's error as its cause.
C9_AlwaysWrapped ==
    (pc = "done" /\ ret # Nil /\ ~IsUnknown(ret)) =>
       \/ \E t \in DOMAIN tasks :
             /\ tasks[t].inv /\ tasks[t].r \in ActionErrs
             /\ ret = [msg |-> "in provider", name |-> tasks[t].p.Name,
                       cause |-> tasks[t].r]
       \/ \E k \in DOMAIN calls :
             /\ calls[k].r \in ActionErrs
             /\ ret = [msg |-> "in provider", name |-> calls[k].p.Name,
                       cause |-> calls[k].r]

\* C9 as amended: that holds of ForProvider, ProvidersParallel and
\* ProvidersSequential; FanOut returns the failed action's error as it is,
\* with no provider name attached.
C9_WrappedExceptFanOut ==
    (pc = "done" /\ ret # Nil /\ ~IsUnknown(ret)) =>
       IF op = "FanOut"
       THEN \E t \in DOMAIN tasks :
               tasks[t].inv /\ tasks[t].r \in ActionErrs /\ ret = tasks[t].r
       ELSE C9_AlwaysWrapped

C9_Witness ==
    /\ op = "ProvidersParallel" /\ pc = "done"
    /\ ret.msg = "in provider" /\ ret.cause \in ActionErrs
    /\ \E t \in DOMAIN tasks : tasks[t].name # named[t] /\ ret = tasks[t].err

\* ------------------------------------------------------ FindActiveAccount
\* The calls of FindActiveAccount the callers S have started.
RECURSIVE CallsStarted(_)
CallsStarted(S) ==
    IF S = {} THEN 0
    ELSE LET c == CHOOSE x \in S : TRUE IN faa[c].ncalls + CallsStarted(S \ {c})

\* a list of names in which a provider can occur twice
AllProviderNames_Repeat ==
    {ns \in SeqsUpTo(DOMAIN Providers, Cardinality(DOMAIN Providers)) :
        Len(ns) = Cardinality(DOMAIN Providers)}

\* AllProviderNames(): the keys of Providers, in the order of a map iteration
AllProviderNames == Perms(DOMAIN Providers)

\* a count in which the empty answer is a vote too
Counts_WithEmpty(pa) == {pa[n] : n \in DOMAIN pa}

\* a count that stops at the first account it meets
Counts_First(pa) ==
    IF {pa[n] : n \in DOMAIN pa} \ {""} = {} THEN {}
    ELSE {CHOOSE a \in {pa[n] : n \in DOMAIN pa} \ {""} : TRUE}

\* for _, acct := range providerAccounts { if len(acct) > 0 { counts[acct]++ } }
Counts(pa) == {pa[n] : n \in DOMAIN pa} \ {""}

\* a switch that takes "no vote" for a consensus on lastAccount (still "")
Verdict_NoZeroCase(pa) ==
    CASE Cardinality(Counts(pa)) <= 1 ->
            {[acct |-> lastAccount, err |-> Nil, store |-> TRUE, cache |-> lastAccount] :
                lastAccount \in Counts(pa) \cup
                                  (IF Counts(pa) = {} THEN {""} ELSE {})}
      [] OTHER ->
            {[acct |-> "", err |-> ErrMultipleAccounts(pa), store |-> FALSE,
              cache |-> ""]}

\* a function that assigns lastAccount to the cache before the switch
Verdict_StoreBeforeSwitch(pa) ==
    CASE Cardinality(Counts(pa)) = 0 ->
            {[acct |-> "", err |-> ErrNoAccounts, store |-> FALSE, cache |-> ""]}
      [] Cardinality(Counts(pa)) = 1 ->
            {[acct |-> lastAccount, err |-> Nil, store |-> TRUE, cache |-> lastAccount] :
                lastAccount \in Counts(pa)}
      [] OTHER ->
            {[acct |-> "", err |-> ErrMultipleAccounts(pa), store |-> TRUE,
              cache |-> lastAccount] : lastAccount \in Counts(pa)}

\* switch len(counts): the pairs FindActiveAccount can return for
\* providerAccounts, and what it assigns to the cache (cache, if store)
Verdict(pa) ==
    CASE Cardinality(Counts(pa)) = 0 ->
            {[acct |-> "", err |-> ErrNoAccounts, store |-> FALSE, cache |-> ""]}
      [] Cardinality(Counts(pa)) = 1 ->
            {[acct |-> lastAccount, err |-> Nil, store |-> TRUE, cache |-> lastAccount] :
                lastAccount \in Counts(pa)}
      [] OTHER ->
            {[acct |-> "", err |-> ErrMultipleAccounts(pa), store |-> FALSE,
              cache |-> ""]}

\* line 159: if len(cachedActiveAccount) > 0; else line 164 and
\* AllProviderNames()
FindActiveAccountBegin(c) ==
    /\ faa[c].pc \in {"idle", "returned"} /\ CallsStarted(Callers) < MaxCalls
    /\ IF cachedActiveAccount # ""
       THEN faa' = [faa EXCEPT ![c] = [IdleCall EXCEPT !.pc = "hit", !.hit = TRUE,
                        !.ncalls = faa[c].ncalls + 1, !.snap = succeeded]]
       ELSE \E ns \in AllProviderNames :
               faa' = [faa EXCEPT ![c] = [IdleCall EXCEPT !.pc = "query", !.names = ns,
                        !.ncalls = faa[c].ncalls + 1, !.snap = succeeded]]
    /\ UNCHANGED <<dvars, vvars, op, Providers, cachedActiveAccount, succeeded,
                   written, oracle>>

\* a memoized path that forgets to return the account
FindActiveAccountHit_Empty(c) ==
    /\ faa[c].pc = "hit"
    /\ faa' = [faa EXCEPT ![c] = [@ EXCEPT !.pc = "returned", !.acct = "", !.err = Nil]]
    /\ UNCHANGED <<dvars, vvars, op, Providers, cachedActiveAccount, succeeded,
                   written, oracle>>

\* line 160: return cachedActiveAccount, nil
FindActiveAccountHit(c) ==
    /\ faa[c].pc = "hit"
    /\ faa' = [faa EXCEPT ![c] = [@ EXCEPT !.pc = "returned",
                                   !.acct = cachedActiveAccount, !.err = Nil]]
    /\ succeeded' = succeeded \cup {cachedActiveAccount}
    /\ UNCHANGED <<dvars, vvars, op, Providers, cachedActiveAccount, written, oracle>>

\* One iteration of ProvidersSequential: ForProvider(name, closure), where
\* the closure is providerAccounts[p.Name()], err = p.FindActiveAccount();
\* lines 169-171 when ProvidersSequential returns the error
FindActiveAccountQuery(c) ==
    /\ faa[c].pc = "query" /\ faa[c].k < Len(faa[c].names)
    /\ LET n == faa[c].names[faa[c].k + 1]
       IN IF ~Lookup(n).ok
          THEN faa' = [faa EXCEPT ![c] = [@ EXCEPT !.pc = "returned", !.acct = "",
                                           !.err = ErrUnknownVMProvider(n)]]
          ELSE \E o \in (IF oracle[n] = AnyAnswer THEN Outcomes ELSE {oracle[n]}) :
                 LET pa == [x \in (DOMAIN faa[c].providerAccounts)
                                        \cup {Lookup(n).p.Name} |->
                                 IF x = Lookup(n).p.Name THEN o.acct
                                 ELSE faa[c].providerAccounts[x]]
                     ans == Append(faa[c].answered,
                                   [name |-> Lookup(n).p.Name, acct |-> o.acct,
                                    err |-> o.err])
                 IN IF SequentialGoesOn(ForProviderResult(n, o.err))
                    THEN faa' = [faa EXCEPT ![c] = [@ EXCEPT !.k = @ + 1,
                                    !.providerAccounts = pa, !.nq = @ + 1,
                                    !.answered = ans]]
                    ELSE faa' = [faa EXCEPT ![c] = [@ EXCEPT !.pc = "returned",
                                    !.providerAccounts = pa, !.nq = @ + 1,
                                    !.answered = ans,
                                    !.acct = "", !.err = ForProviderResult(n, o.err)]]
    /\ UNCHANGED <<dvars, vvars, op, Providers, cachedActiveAccount, succeeded,
                   written, oracle>>

\* lines 173-192: ProvidersSequential returned nil; count and switch
FindActiveAccountReduce(c) ==
    /\ faa[c].pc = "query" /\ faa[c].k = Len(faa[c].names)
    /\ \E v \in Verdict(faa[c].providerAccounts) :
          /\ faa' = [faa EXCEPT ![c] = [@ EXCEPT !.pc = "returned", !.acct = v.acct,
                                         !.err = v.err]]
          /\ IF v.store
             THEN /\ cachedActiveAccount' = v.cache
                  /\ written' = Append(written, v.cache)
             ELSE UNCHANGED <<cachedActiveAccount, written>>
          /\ succeeded' = IF v.err = Nil THEN succeeded \cup {v.acct} ELSE succeeded
    /\ UNCHANGED <<dvars, vvars, op, Providers, oracle>>

\* The state in which no call of the dispatch engine is under way.
NoDispatch ==
    /\ list = <<>> /\ named = <<>> /\ pc = "done" /\ m = EmptyMap /\ iter = <<>>
    /\ i = 0 /\ name = "" /\ vms = <<>> /\ tasks = <<>>
    /\ g = [err |-> Nil, once |-> FALSE]
    /\ ret = Nil /\ calls = <<>> /\ firstFailed = 0 /\ firstOnce = 0

\* Concurrent callers; backends whose answers can change from call to call.
InitAccount ==
    /\ op = "FindActiveAccount"
    /\ \E reg \in AccountRegistries : Providers = MkRegistry(reg)
    /\ NoDispatch
    /\ cachedActiveAccount = ""
    /\ faa = [c \in Callers |-> IdleCall]
    /\ succeeded = {}
    /\ written = <<>>
    /\ oracle = [n \in DOMAIN Providers |-> AnyAnswer]
    /\ Local = NoVM.Zone /\ recv = NoVM /\ out = <<>>

NextAccount ==
    \/ \E c \in Callers : FindActiveAccountBegin(c)
    \/ \E c \in Callers : FindActiveAccountHit(c)
    \/ \E c \in Callers : FindActiveAccountQuery(c)
    \/ \E c \in Callers : FindActiveAccountReduce(c)

SpecAccount == InitAccount /\ [][NextAccount]_vars

\* Concurrent callers; backends that give the same answer every time.
InitStable ==
    /\ op = "FindActiveAccount"
    /\ \E reg \in AccountRegistries : Providers = MkRegistry(reg)
    /\ NoDispatch
    /\ cachedActiveAccount = ""
    /\ faa = [c \in Callers |-> IdleCall]
    /\ succeeded = {}
    /\ written = <<>>
    /\ oracle \in [DOMAIN Providers -> Outcomes]
    /\ Local = NoVM.Zone /\ recv = NoVM /\ out = <<>>

SpecStable == InitStable /\ [][NextAccount]_vars

\* One caller at a time, any registry.
InitResolve ==
    /\ op = "FindActiveAccount"
    /\ \E reg \in Registries : Providers = MkRegistry(reg)
    /\ NoDispatch
    /\ cachedActiveAccount = ""
    /\ faa = [c \in Callers |-> IdleCall]
    /\ succeeded = {}
    /\ written = <<>>
    /\ oracle = [n \in DOMAIN Providers |-> AnyAnswer]
    /\ Local = NoVM.Zone /\ recv = NoVM /\ out = <<>>

NextResolve ==
    \/ FindActiveAccountBegin(1)
    \/ FindActiveAccountHit(1)
    \/ FindActiveAccountQuery(1)
    \/ FindActiveAccountReduce(1)

SpecResolve == InitResolve /\ [][NextResolve]_vars

\* C10: once a call has returned an account, every call started afterwards
\* returns that same account with a nil error and makes no provider call.
C10_Memoized ==
    \A c \in Callers :
       (faa[c].pc = "returned" /\ faa[c].snap # {}) =>
          /\ faa[c].err = Nil
          /\ faa[c].nq = 0
          /\ \A a \in faa[c].snap : faa[c].acct = a

\* ------------------------------------------------------- VM and List
\* A string is the sequence of its characters.  ZoneChars has one
\* character of each kind regionRE tells apart: the separator, a lowercase
\* letter, a character that is neither, and the line break (which `.` does
\* not match and [^-] does).
ZoneChars == {"-", "b", "1", "\n"}
Lower == {"a", "b", "c", "l", "o"}      \* the characters of [a-z] that occur
ZoneStrings == SeqsUpTo(ZoneChars, MaxZone)

\* Values config.Local can have: one that regionRE does not match, two
\* that it matches.
LocalZones == {<<"1">>, <<"l", "o", "c", "a", "l">>, <<"1", "-", "b">>}

\* The VMs of the Lists handed to Names and Zones.
ListVMs ==
    {[Name |-> n, Provider |-> "a", Zone |-> z] :
        n \in {<<"v", "1">>, <<"v", "2">>}, z \in {<<"1", "-", "b">>, <<"1", "b">>}}

\* vm.Zone == config.Local
IsLocal(v) == v.Zone = Local

\* a pattern whose separator is not optional: (.*[^-])-[a-z]$
GroupEnds_SeparatorRequired(s) ==
    {j \in 1..(Len(s) - 2) : s[j] # "-" /\ s[j + 1] = "-" /\ s[Len(s)] \in Lower}

\* regionRE, right part: the positions j at which the group can end, that
\* is s[j] is matched by [^-] and the rest of s by -?[a-z]$
GroupEnds(s) ==
    {j \in 1..(Len(s) - 1) :
        /\ s[j] # "-"
        /\ s[Len(s)] \in Lower
        /\ \/ j = Len(s) - 1
           \/ j = Len(s) - 2 /\ s[j + 1] = "-"}

\* regionRE, left part: s[b..j] is matched by .*[^-], that is no line
\* break among s[b..j-1]
GroupAt(s, b, j) == b <= j /\ \A k \in b..(j - 1) : s[k] # "\n"

\* regionRE.FindStringSubmatch(s): nil (the empty sequence) when nothing
\* matches, else <<match[0], match[1]>> of the leftmost match, the greedy
\* .* taking the longest group from there
FindStringSubmatch(s) ==
    LET begins == {b \in 1..Len(s) : \E j \in GroupEnds(s) : GroupAt(s, b, j)}
    IN IF begins = {} THEN <<>>
       ELSE LET b == CHOOSE x \in begins : \A y \in begins : x <= y
                j == CHOOSE x \in {e \in GroupEnds(s) : GroupAt(s, b, e)} :
                        \A y \in {e \in GroupEnds(s) : GroupAt(s, b, e)} : y <= x
            IN <<SubSeq(s, b, Len(s)), SubSeq(s, b, j)>>

\* fmt.Sprintf("region=%s,zone=%s", region, zone)
Sprintf(region, zone) == <<"region=">> \o region \o <<",zone=">> \o zone

\* log.Fatalf("unable to parse region from zone %q", zone): the process
\* exits, nothing is returned
Fatalf(zone) == <<"fatal: unable to parse region from zone ">> \o zone

\* a Locality that does not ask IsLocal first
Locality_NoIsLocal(v) ==
    LET match == FindStringSubmatch(v.Zone)
    IN IF Len(match) = 2 THEN Sprintf(match[2], v.Zone) ELSE Fatalf(v.Zone)

\* (vm *VM) Locality()
Locality(v) ==
    IF IsLocal(v) THEN Sprintf(v.Zone, v.Zone)
    ELSE LET match == FindStringSubmatch(v.Zone)
         IN IF Len(match) = 2 THEN Sprintf(match[2], v.Zone) ELSE Fatalf(v.Zone)

\* ret := make([]string, len(vl))
Make(n) == [k \in 1..n |-> <<>>]

\* a Names that appends to the slice it made
List_Names_Append(vl) == Make(Len(vl)) \o [k \in 1..Len(vl) |-> vl[k].Name]

\* for i, vm := range vl { ret[i] = vm.Name }, from iteration k on
RECURSIVE NamesLoop(_, _, _)
NamesLoop(vl, k, r) ==
    IF k > Len(vl) THEN r ELSE NamesLoop(vl, k + 1, [r EXCEPT ![k] = vl[k].Name])

\* (vl List) Names()
List_Names(vl) == NamesLoop(vl, 1, Make(Len(vl)))

\* for i, vm := range vl { ret[i] = vm.Zone }, from iteration k on
RECURSIVE ZonesLoop(_, _, _)
ZonesLoop(vl, k, r) ==
    IF k > Len(vl) THEN r ELSE ZonesLoop(vl, k + 1, [r EXCEPT ![k] = vl[k].Zone])

\* (vl List) Zones()
List_Zones(vl) == ZonesLoop(vl, 1, Make(Len(vl)))

\* Everything but the List, the position and the result is left alone.
VMFrame ==
    UNCHANGED <<op, Providers, named, m, iter, i, name, vms, tasks, g, ret, calls,
                firstFailed, firstOnce, avars, Local, recv>>

\* A call of vm.Locality(): it returns, or the process exits.
CallLocality ==
    /\ op = "Locality" /\ pc = "call"
    /\ out' = Locality(recv)
    /\ pc' = IF Locality(recv) = Fatalf(recv.Zone) THEN "exited" ELSE "done"
    /\ list' = list
    /\ VMFrame

\* A call of vl.Names().
CallNames ==
    /\ op = "Names" /\ pc = "call"
    /\ out' = List_Names(list)
    /\ pc' = "done"
    /\ list' = list
    /\ VMFrame

\* A call of vl.Zones().
CallZones ==
    /\ op = "Zones" /\ pc = "call"
    /\ out' = List_Zones(list)
    /\ pc' = "done"
    /\ list' = list
    /\ VMFrame

\* One call of Locality on any VM, or of Names or Zones on any List.
InitVM ==
    /\ op \in {"Locality", "Names", "Zones"}
    /\ Providers = MkRegistry({})
    /\ Local \in LocalZones
    /\ IF op = "Locality"
       THEN /\ \E z \in ZoneStrings \cup LocalZones :
                 recv = [Name |-> <<"v", "1">>, Provider |-> "a", Zone |-> z]
            /\ list = <<>>
       ELSE /\ recv = NoVM
            /\ list \in SeqsUpTo(ListVMs, MaxVMs)
    /\ pc = "call" /\ out = <<>>
    /\ named = <<>> /\ m = EmptyMap /\ iter = <<>>
    /\ i = 0 /\ name = "" /\ vms = <<>> /\ tasks = <<>>
    /\ g = [err |-> Nil, once |-> FALSE]
    /\ ret = Nil /\ calls = <<>> /\ firstFailed = 0 /\ firstOnce = 0
    /\ cachedActiveAccount = ""
    /\ faa = [c \in Callers |-> IdleCall]
    /\ succeeded = {} /\ written = <<>>
    /\ oracle = [n \in DOMAIN Providers |-> AnyAnswer]

NextVM == CallLocality \/ CallNames \/ CallZones

SpecVM == InitVM /\ [][NextVM]_vars

\* ------------------------------------------------- claims C11 to C20
\* A call that found the cache empty and has returned after every provider
\* call it made returned a nil error.
NoProviderError(call) == \A j \in DOMAIN call.answered : call.answered[j].err = Nil
Resolved(c) ==
    /\ faa[c].pc = "returned" /\ ~faa[c].hit
    /\ NoProviderError(faa[c])
\* The non-empty accounts the providers answered to a call.
Votes(call) == {call.answered[j].acct : j \in DOMAIN call.answered} \ {""}
EmptyAnswers(call) == {j \in DOMAIN call.answered : call.answered[j].acct = ""}

\* C11: a call that found the cache empty, met no provider error and got
\* one and the same non-empty account a from every provider that answered
\* a non-empty string returns a with a nil error and stores a in the
\* cache, however many providers answered the empty string.
C11_Consensus ==
    [][\A c \in Callers : \A a \in Accounts :
          ( /\ faa[c].pc = "query" /\ faa'[c].pc = "returned"
            /\ NoProviderError(faa'[c])
            /\ Votes(faa'[c]) = {a} ) =>
             /\ faa'[c].acct = a
             /\ faa'[c].err = Nil
             /\ cachedActiveAccount' = a]_vars

C11_Witness ==
    \E c \in Callers :
       /\ Resolved(c) /\ Votes(faa[c]) = {"acct1"}
       /\ Cardinality(EmptyAnswers(faa[c])) >= 2
       /\ faa[c].acct = "acct1" /\ faa[c].err = Nil
       /\ cachedActiveAccount = "acct1"

\* C12: a call that found the cache empty and met no provider error
\* returns the "multiple active Provider accounts detected" error and no
\* account as soon as two providers answered different non-empty accounts,
\* and the error carries, for every registered provider, its answer.
C12_Disagreement ==
    \A c \in Callers :
       (Resolved(c) /\ Cardinality(Votes(faa[c])) >= 2) =>
          /\ faa[c].acct = ""
          /\ faa[c].err.msg = "multiple active Provider accounts detected"
          /\ DOMAIN faa[c].err.accounts = DOMAIN Providers
          /\ \A j \in DOMAIN faa[c].answered :
                faa[c].err.accounts[faa[c].answered[j].name] = faa[c].answered[j].acct

C12_Witness ==
    \E c \in Callers :
       /\ Resolved(c) /\ Len(faa[c].answered) = 3
       /\ \E j \in 1..3 :
             /\ faa[c].answered[j].acct = "acct2"
             /\ \A k \in (1..3) \ {j} : faa[c].answered[k].acct = "acct1"
       /\ faa[c].acct = ""
       /\ faa[c].err = ErrMultipleAccounts(faa[c].providerAccounts)

\* C13: a call that found the cache empty and got the empty string, with
\* a nil error, from every registered provider (or has no provider at all)
\* returns the "no Providers returned any active accounts" error and no
\* account.
C13_NoAccounts ==
    \A c \in Callers :
       (Resolved(c) /\ Votes(faa[c]) = {}) =>
          /\ faa[c].acct = ""
          /\ faa[c].err = [msg |-> "no Providers returned any active accounts"]

C13_Witness ==
    \E c \in Callers :
       /\ Resolved(c) /\ Len(faa[c].answered) >= 2 /\ Votes(faa[c]) = {}
       /\ faa[c].err = ErrNoAccounts

\* C14: when a provider's FindActiveAccount returns an error, the call
\* returns the empty account with that provider's error (as ForProvider
\* hands it on: under the provider's name, the error as its cause), the
\* failing provider is the last one queried and no verdict is drawn from
\* the answers before it.
C14_ProviderError ==
    \A c \in Callers :
       (faa[c].pc = "returned" /\ ~NoProviderError(faa[c])) =>
          LET f == Len(faa[c].answered)
          IN /\ faa[c].answered[f].err # Nil
             /\ \A j \in 1..(f - 1) : faa[c].answered[j].err = Nil
             /\ faa[c].nq = f
             /\ faa[c].names[f] = faa[c].answered[f].name
             /\ faa[c].acct = ""
             /\ faa[c].err = [msg |-> "in provider", name |-> faa[c].answered[f].name,
                              cause |-> faa[c].answered[f].err]

C14_Witness ==
    \E c \in Callers :
       /\ faa[c].pc = "returned" /\ Len(faa[c].answered) = 3
       /\ faa[c].answered[1].acct = "acct1" /\ faa[c].answered[2].acct = "acct1"
       /\ faa[c].answered[3].err = ProviderErr
       /\ faa[c].acct = "" /\ faa[c].err.msg = "in provider"
       /\ cachedActiveAccount = ""

\* C15: the cache is assigned at most once, whatever the callers do, and
\* a non-empty cache never changes.
C15_WriteOnce ==
    /\ Len(written) <= 1
    /\ \A j \in DOMAIN written : written[j] = written[1]

\* The text of Z that stands before its last character and, when there is
\* one, before the separator right before that character.
BeforeSuffix(Z) ==
    IF Len(Z) >= 2 /\ Z[Len(Z) - 1] = "-" THEN SubSeq(Z, 1, Len(Z) - 2)
    ELSE SubSeq(Z, 1, Len(Z) - 1)
\* P without everything up to the last line break that is not P's last
\* character.
LastLine(P) ==
    LET breaks == {k \in 1..(Len(P) - 1) : P[k] = "\n"}
    IN IF breaks = {} THEN P
       ELSE SubSeq(P, 1 + (CHOOSE k \in breaks : \A l \in breaks : l <= k), Len(P))
Returned == op = "Locality" /\ pc \in {"done", "exited"}

\* C16, as the claim states it: the local sentinel gives region = zone; a
\* zone that ends with '-' and a lowercase letter gives the zone without
\* these two characters as region; every other zone is fatal.
C16_SeparatorAndLetter ==
    Returned =>
       LET Z == recv.Zone
       IN IF Z = Local THEN pc = "done" /\ out = Sprintf(Z, Z)
          ELSE IF Len(Z) >= 2 /\ Z[Len(Z) - 1] = "-" /\ Z[Len(Z)] \in Lower
          THEN pc = "done" /\ out = Sprintf(SubSeq(Z, 1, Len(Z) - 2), Z)
          ELSE pc = "exited"

\* C16, amended: the local sentinel gives region = zone; a zone that ends
\* with a lowercase letter, with or without one '-' before it, and whose
\* text before that suffix is not empty and does not end with '-', gives
\* that text (its last line) as region; every other zone is fatal.
C16_OptionalSeparator ==
    Returned =>
       LET Z == recv.Zone
           P == BeforeSuffix(Z)
       IN IF Z = Local THEN pc = "done" /\ out = Sprintf(Z, Z)
          ELSE IF /\ Len(Z) >= 1 /\ Z[Len(Z)] \in Lower
                  /\ Len(P) >= 1 /\ P[Len(P)] # "-"
          THEN pc = "done" /\ out = Sprintf(LastLine(P), Z)
          ELSE pc = "exited" /\ out = Fatalf(Z)

C16_Witness ==
    /\ Returned /\ recv.Zone = <<"1", "-", "1", "b">> /\ recv.Zone # Local
    /\ out = <<"region=", "1", "-", "1", ",zone=", "1", "-", "1", "b">>

\* C17: Names and Zones return a sequence as long as the List whose i-th
\* element is the Name, respectively the Zone, of the List's i-th VM, and
\* leave the List as it was.
C17_Projections ==
    [][(pc = "call" /\ pc' = "done" /\ op \in {"Names", "Zones"}) =>
          /\ list' = list
          /\ Len(out') = Len(list)
          /\ \A k \in 1..Len(list) :
                out'[k] = IF op = "Names" THEN list[k].Name ELSE list[k].Zone]_vars

C17_Witness ==
    /\ op = "Names" /\ pc = "done" /\ Len(list) = 3
    /\ list[1].Name # list[2].Name /\ list[1].Zone # list[3].Zone
    /\ out = <<list[1].Name, list[2].Name, list[3].Name>>

\* C18: with backends that answer the same every time, the calls that
\* have returned either all returned the same account with a nil error,
\* which the cache holds, or all returned an error, the cache being empty.
C18_SameOutcome ==
    \A c1, c2 \in Callers :
       (faa[c1].pc = "returned" /\ faa[c2].pc = "returned") =>
          \/ /\ faa[c1].err = Nil /\ faa[c2].err = Nil
             /\ faa[c1].acct = faa[c2].acct
             /\ cachedActiveAccount = faa[c1].acct
             /\ faa[c1].acct # ""
          \/ /\ faa[c1].err # Nil /\ faa[c2].err # Nil
             /\ cachedActiveAccount = ""

C18_Witness ==
    \E c1, c2 \in Callers :
       /\ c1 # c2 /\ Resolved(c1) /\ Resolved(c2)
       /\ faa[c1].nq > 0 /\ faa[c2].nq > 0
       /\ faa[c1].err = Nil /\ faa[c2].err = Nil
       /\ Len(written) = 2
       /\ faa[c1].acct = faa[c2].acct /\ cachedActiveAccount = faa[c1].acct

\* C19: the cache is assigned only by a call that returns an account with
\* a nil error, the value being that account, one that a provider
\* answered to that call; a call that returns an error leaves the cache as
\* it was; and a call started when no call has succeeded yet finds the
\* cache empty and queries the providers.
C19_CacheWrites ==
    [][ /\ (cachedActiveAccount' # cachedActiveAccount \/ written' # written) =>
             \E c \in Callers :
                /\ faa[c].pc = "query" /\ faa'[c].pc = "returned"
                /\ faa'[c].err = Nil
                /\ faa'[c].acct = cachedActiveAccount'
                /\ cachedActiveAccount' \in Votes(faa'[c])
        /\ \A c \in Callers :
              (faa[c].pc # "returned" /\ faa'[c].pc = "returned" /\ faa'[c].err # Nil) =>
                 cachedActiveAccount' = cachedActiveAccount
        /\ \A c \in Callers :
              (faa[c].pc \in {"idle", "returned"} /\ faa'[c].pc \in {"hit", "query"}
                 /\ succeeded = {}) =>
                 /\ cachedActiveAccount = ""
                 /\ faa'[c].pc = "query"
                 /\ Range(faa'[c].names) = DOMAIN Providers ]_vars

C19_Witness ==
    \E c \in Callers :
       /\ faa[c].ncalls >= 2 /\ faa[c].snap = {}
       /\ Resolved(c) /\ faa[c].err = Nil /\ faa[c].nq > 0
       /\ cachedActiveAccount = faa[c].acct /\ written = <<faa[c].acct>>

====
